---- MODULE Spec2Model ----
(***************************************************************************)
(* A model of gix (src/gix.mjs): the content-addressed object store, the   *)
(* index, HEAD and the branch refs, the working tree, and the commands     *)
(* add, commit, branch, checkout, log and status.  Every command is a      *)
(* process that advances one file-system phase at a time, in the order of  *)
(* the awaits of its code.                                                 *)
(***************************************************************************)
EXTENDS Integers, Sequences, FiniteSets, TLC

(* ------------------------------ bounds --------------------------------- *)

\* number of versions the user gives a file
MaxContent == 2
\* number of successful commits in one behaviour
MaxCommits == 3

(* ------------------------------ inputs --------------------------------- *)

\* the paths, branch names and messages given on the command line
OnePath == {"a"}
TwoPaths == {"a", "b"}
Branches == {"master", "dev"}
Messages == {"m"}
Procs == {1, 2}

(* ------------------------------ values --------------------------------- *)

\* JavaScript null and the empty string; both are falsy
NULL == [null |-> TRUE]
EMPTY == [empty |-> TRUE]
Falsy(v) == v = NULL \/ v = EMPTY

\* JSON.stringify(value): the text of a value; JSON.parse of a text that was
\* not produced by stringify throws (a SyntaxError, which has no .code)
JSONstringify(v) == [json |-> v]
IsJSON(t) == DOMAIN t = {"json"}
JSONparse(t) == t.json

\* hashObject, lines 39-41: sha1 of a text, taken to be collision free
hashObject(content) == [sha1 |-> content]

\* path.dirname of a path of the model
Dirname(f) == IF f = "a/b" THEN "a" ELSE "."

VARIABLES objects, refs, HEAD, indexFile, work, dirs, clock, committed, proc
\* objects    .gix/objects: hash -> stored text
\* refs       .gix/refs/heads: branch name -> "" or a hash
\* HEAD       .gix/HEAD: [ref |-> name] or [raw |-> hash]
\* indexFile  .gix/index: the JSON text of the entry list
\* work       working tree: path -> text, for the regular files
\* dirs       working tree: the directories that exist below the root
\* clock      the wall clock new Date() reads: later at every commit
\* committed  number of "Committed" messages printed so far
\* proc       the running invocations

vars == <<objects, refs, HEAD, indexFile, work, dirs, clock, committed, proc>>
disk == <<objects, refs, HEAD, indexFile>>
tree == <<work, dirs>>

\* an invocation that is not running
IdleProc ==
    [pc |-> "idle", cmd |-> "none", arg |-> "", result |-> "none",
     data |-> NULL, hash |-> NULL, index |-> <<>>, parent |-> NULL,
     newFiles |-> <<>>, currentFiles |-> <<>>, i |-> 0, out |-> <<>>,
     report |-> NULL, pre |-> NULL]

\* the repository and the working tree as a command finds them
Snapshot ==
    [objects |-> objects, refs |-> refs, HEAD |-> HEAD,
     indexFile |-> indexFile, work |-> work, dirs |-> dirs]

(* --------------------------- file system ------------------------------- *)

\* what a path of the working tree is: a regular file, a directory, missing,
\* or below something that is not a directory
FsStat(w, d, f) ==
    IF f \in DOMAIN w THEN "file"
    ELSE IF f \in d THEN "dir"
    ELSE IF Dirname(f) \in DOMAIN w THEN "ENOTDIR"
    ELSE "ENOENT"

\* the function g without the key k
Remove(g, k) == [x \in DOMAIN g \ {k} |-> g[x]]
\* the function g with k bound to v
Put(g, k, v) == [x \in DOMAIN g \cup {k} |-> IF x = k THEN v ELSE g[x]]

\* fs.readFile(objects/<hash>) finds the file
HasObject(o, h) == h \in DOMAIN o

(* ------------------------------ init ----------------------------------- *)

\* Gix.init, lines 22-37, on an empty directory
Init ==
    /\ objects = <<>>
    /\ refs = [b \in {"master"} |-> EMPTY]
    /\ HEAD = [ref |-> "master"]
    /\ indexFile = JSONstringify(<<>>)
    /\ work = <<>>
    /\ dirs = {}
    /\ clock = 0
    /\ committed = 0
    /\ proc = [p \in Procs |-> IdleProc]

\* a hash under which nothing is stored
Dangling == hashObject([text |-> 0])

\* HEAD and the ref files of a repository before its first command: as
\* Gix.init leaves them, or edited by hand: HEAD holding a raw hash without
\* an object, the branch ref holding such a hash, HEAD naming a branch that
\* has no ref file, and an empty HEAD file
HandEdited ==
    {[HEAD |-> [ref |-> "master"], refs |-> [b \in {"master"} |-> EMPTY]],
     [HEAD |-> [raw |-> Dangling], refs |-> [b \in {"master"} |-> EMPTY]],
     [HEAD |-> [ref |-> "master"], refs |-> [b \in {"master"} |-> Dangling]],
     [HEAD |-> [ref |-> "dev"], refs |-> [b \in {"master"} |-> EMPTY]],
     [HEAD |-> [raw |-> EMPTY], refs |-> [b \in {"master"} |-> EMPTY]]}

\* a repository whose HEAD and refs are one of these
InitDisk ==
    /\ objects = <<>>
    /\ \E e \in HandEdited : refs = e.refs /\ HEAD = e.HEAD
    /\ indexFile = JSONstringify(<<>>)
    /\ work = <<>>
    /\ dirs = {}
    /\ clock = 0
    /\ committed = 0
    /\ proc = [p \in Procs |-> IdleProc]

(* ------------------------ the user's own edits ------------------------- *)

NobodyRuns == \A p \in Procs : proc[p].pc = "idle"

\* the user writes a file with an editor, creating its directory if needed
UserWrite(f, c) ==
    /\ NobodyRuns
    /\ FsStat(work, dirs, f) \in {"file", "ENOENT"}
    /\ f \notin {Dirname(g) : g \in DOMAIN work}
    /\ work' = Put(work, f, c)
    /\ dirs' = dirs \cup ({Dirname(f)} \ {"."})
    /\ UNCHANGED <<disk, clock, committed, proc>>

\* the user removes a file
UserDelete(f) ==
    /\ NobodyRuns
    /\ f \in DOMAIN work
    /\ work' = Remove(work, f)
    /\ UNCHANGED <<disk, dirs, clock, committed, proc>>

\* the user removes an empty directory
UserRmdir(d) ==
    /\ NobodyRuns
    /\ d \in dirs
    /\ \A g \in DOMAIN work : Dirname(g) # d
    /\ dirs' = dirs \ {d}
    /\ UNCHANGED <<disk, work, clock, committed, proc>>

(* --------------------------- invocations ------------------------------- *)

\* withGix, lines 433-437: the command c starts with argument a on the
\* initialised repository, at phase l
Begin(p, c, a, l) ==
    [IdleProc EXCEPT !.pc = l, !.cmd = c, !.arg = a, !.pre = Snapshot]
\* the command ends at once with result r
BeginDone(p, c, a, r) == [Begin(p, c, a, "done") EXCEPT !.result = r]

\* the process exits
Finish(p) ==
    /\ proc[p].pc = "done"
    /\ proc' = [proc EXCEPT ![p] = IdleProc]
    /\ UNCHANGED <<disk, tree, clock, committed>>

\* the invocation p moves to phase l, or ends with result r
Goto(p, l) == [proc[p] EXCEPT !.pc = l]
Done(p, r) == [proc[p] EXCEPT !.pc = "done", !.result = r]

(* -------------------------------- add ---------------------------------- *)

\* an add that hashes the content and does not store it
add_NoStore(p, filePath) ==
    /\ proc[p].pc = "idle"
    /\ LET st == FsStat(work, dirs, filePath) IN
       proc' = [proc EXCEPT ![p] =
          IF st = "file"
            THEN [Begin(p, "add", filePath, "updateIndex") EXCEPT
                     !.data = work[filePath],
                     !.hash = hashObject(work[filePath])]
          ELSE IF st = "ENOENT"
            THEN Begin(p, "add", filePath, "removeFromIndex")
          ELSE BeginDone(p, "add", filePath, "Thrown")]
    /\ UNCHANGED <<disk, tree, clock, committed>>

\* add, lines 45-48: read the working file and store its content under its
\* hash; ENOENT leads to removeFromIndex, any other error is thrown
add(p, filePath) ==
    /\ proc[p].pc = "idle"
    /\ LET st == FsStat(work, dirs, filePath) IN
       IF st = "file"
         THEN /\ objects' = Put(objects, hashObject(work[filePath]), work[filePath])
              /\ proc' = [proc EXCEPT ![p] =
                    [Begin(p, "add", filePath, "updateIndex") EXCEPT
                        !.data = work[filePath],
                        !.hash = hashObject(work[filePath])]]
         ELSE /\ UNCHANGED objects
              /\ proc' = [proc EXCEPT ![p] =
                    IF st = "ENOENT"
                      THEN Begin(p, "add", filePath, "removeFromIndex")
                      ELSE BeginDone(p, "add", filePath, "Thrown")]
    /\ UNCHANGED <<refs, HEAD, indexFile, tree, clock, committed>>

\* the entries of index whose path is not filePath
Filtered(index, filePath) == SelectSeq(index, LAMBDA e : e.path # filePath)

\* updateIndex, lines 61-66, and add, line 50
updateIndex(p) ==
    /\ proc[p].pc = "updateIndex"
    /\ indexFile' = JSONstringify(
           Append(Filtered(JSONparse(indexFile), proc[p].arg),
                  [path |-> proc[p].arg, hash |-> proc[p].hash]))
    /\ proc' = [proc EXCEPT ![p] = Done(p, "Added")]
    /\ UNCHANGED <<objects, refs, HEAD, tree, clock, committed>>

\* removeFromIndex, lines 68-72, and add, line 54
removeFromIndex(p) ==
    /\ proc[p].pc = "removeFromIndex"
    /\ indexFile' = JSONstringify(Filtered(JSONparse(indexFile), proc[p].arg))
    /\ proc' = [proc EXCEPT ![p] = Done(p, "Removed")]
    /\ UNCHANGED <<objects, refs, HEAD, tree, clock, committed>>

(* ------------------------------ refs ----------------------------------- *)

IsSymbolic(headContent) == DOMAIN headContent = {"ref"}

\* getCurrentHead, lines 117-129: the content of the ref HEAD names, HEAD's
\* own content when it is not symbolic, null when the ref file is missing
getCurrentHead(h, r) ==
    IF IsSymbolic(h)
      THEN IF h.ref \in DOMAIN r THEN r[h.ref] ELSE NULL
      ELSE h.raw

\* the files of the commit stored under hash h; <<>> when h is falsy, is not
\* stored or is not the text of a commit (lines 80-88, 251-259, 298-306)
FilesOf(o, h) ==
    IF Falsy(h) \/ ~HasObject(o, h) THEN <<>>
    ELSE IF ~IsJSON(o[h]) THEN <<>>
    ELSE JSONparse(o[h]).files

\* true when some entry of files has this path / this path and hash
HasPath(files, path) == \E k \in 1..Len(files) : files[k].path = path
HasEntry(files, e) ==
    \E k \in 1..Len(files) : files[k].path = e.path /\ files[k].hash = e.hash

(* ------------------------------ commit --------------------------------- *)

\* a comparison that also asks for the same order
unchanged_Ordered(index, previous) == index = previous

\* commit, lines 90-91
unchanged(index, previous) ==
    /\ Len(index) = Len(previous)
    /\ \A k \in 1..Len(index) : HasEntry(previous, index[k])

\* a parent that is always taken from the branch master
ParentOf_Master(h, r) ==
    IF "master" \notin DOMAIN r \/ Falsy(r["master"]) THEN NULL ELSE r["master"]

\* commit, line 76: what HEAD resolves to, null when it is falsy
ParentOf(h, r) ==
    IF Falsy(getCurrentHead(h, r)) THEN NULL ELSE getCurrentHead(h, r)

\* a commit that does not look for an empty index
commit_check_NoEmptyCheck(p, message) ==
    /\ proc[p].pc = "idle"
    /\ committed < MaxCommits
    /\ LET index == JSONparse(indexFile)
           parent == ParentOf(HEAD, refs)
       IN proc' = [proc EXCEPT ![p] =
             IF unchanged(index, FilesOf(objects, parent))
               THEN BeginDone(p, "commit", message, "NoChanges")
             ELSE [Begin(p, "commit", message, "commit_write") EXCEPT
                      !.index = index, !.parent = parent]]
    /\ UNCHANGED <<disk, tree, clock, committed>>

\* a commit that lets the failed read of the parent escape
commit_check_Strict(p, message) ==
    /\ proc[p].pc = "idle"
    /\ committed < MaxCommits
    /\ LET index == JSONparse(indexFile)
           parent == ParentOf(HEAD, refs)
       IN proc' = [proc EXCEPT ![p] =
             IF Len(index) = 0
               THEN BeginDone(p, "commit", message, "NothingToCommit")
             ELSE IF parent # NULL /\ ~HasObject(objects, parent)
               THEN BeginDone(p, "commit", message, "Thrown")
             ELSE IF unchanged(index, FilesOf(objects, parent))
               THEN BeginDone(p, "commit", message, "NoChanges")
             ELSE [Begin(p, "commit", message, "commit_write") EXCEPT
                      !.index = index, !.parent = parent]]
    /\ UNCHANGED <<disk, tree, clock, committed>>

\* commit, lines 75-92: read the index and the parent; stop when nothing is
\* staged or when the index has the entries of the parent commit
commit_check(p, message) ==
    /\ proc[p].pc = "idle"
    /\ committed < MaxCommits
    /\ LET index == JSONparse(indexFile)
           parent == ParentOf(HEAD, refs)
       IN proc' = [proc EXCEPT ![p] =
             IF Len(index) = 0
               THEN BeginDone(p, "commit", message, "NothingToCommit")
             ELSE IF unchanged(index, FilesOf(objects, parent))
               THEN BeginDone(p, "commit", message, "NoChanges")
             ELSE [Begin(p, "commit", message, "commit_write") EXCEPT
                      !.index = index, !.parent = parent]]
    /\ UNCHANGED <<disk, tree, clock, committed>>

\* a record that forgets its parent
CommitRecord_NoParent(t, message, index, parent) ==
    [timeStamp |-> t, message |-> message, files |-> index, parent |-> NULL]

\* commit, lines 94-99: the commit record
CommitRecord(t, message, index, parent) ==
    [timeStamp |-> t, message |-> message, files |-> index, parent |-> parent]

\* a commit that computes the hash and does not write the object
commit_write_NoStore(p) ==
    /\ proc[p].pc = "commit_write"
    /\ LET text == JSONstringify(
               CommitRecord(clock + 1, proc[p].arg, proc[p].index, proc[p].parent))
       IN /\ clock' = clock + 1
          /\ proc' = [proc EXCEPT ![p] =
                 [Goto(p, "commit_ref") EXCEPT !.hash = hashObject(text)]]
    /\ UNCHANGED <<objects, refs, HEAD, indexFile, tree, committed>>

\* commit, lines 94-102: build the record and store its text under its hash
commit_write(p) ==
    /\ proc[p].pc = "commit_write"
    /\ LET text == JSONstringify(
               CommitRecord(clock + 1, proc[p].arg, proc[p].index, proc[p].parent))
       IN /\ clock' = clock + 1
          /\ objects' = Put(objects, hashObject(text), text)
          /\ proc' = [proc EXCEPT ![p] =
                 [Goto(p, "commit_ref") EXCEPT !.hash = hashObject(text)]]
    /\ UNCHANGED <<refs, HEAD, indexFile, tree, committed>>

\* every branch is moved to the new hash
AdvancedRefs_All(r, headContent, hash) ==
    IF IsSymbolic(headContent)
      THEN [b \in DOMAIN r \cup {headContent.ref} |-> hash]
      ELSE [b \in DOMAIN r |-> hash]

\* commit, lines 104-111: the ref files and HEAD after the new hash is linked
\* in: the branch HEAD names moves, or HEAD itself when it holds a raw hash
AdvancedRefs(r, headContent, hash) ==
    IF IsSymbolic(headContent) THEN Put(r, headContent.ref, hash) ELSE r

AdvancedHead(headContent, hash) ==
    IF IsSymbolic(headContent) THEN headContent ELSE [raw |-> hash]

\* a commit that moves the pointer HEAD named when the commit started
commit_ref_Stale(p) ==
    /\ proc[p].pc = "commit_ref"
    /\ refs' = AdvancedRefs(refs, proc[p].pre.HEAD, proc[p].hash)
    /\ HEAD' = AdvancedHead(HEAD, proc[p].hash)
    /\ proc' = [proc EXCEPT ![p] = Goto(p, "commit_clear")]
    /\ UNCHANGED <<objects, indexFile, tree, clock, committed>>

\* commit, lines 104-111: read HEAD again and move the pointer
commit_ref(p) ==
    /\ proc[p].pc = "commit_ref"
    /\ refs' = AdvancedRefs(refs, HEAD, proc[p].hash)
    /\ HEAD' = AdvancedHead(HEAD, proc[p].hash)
    /\ proc' = [proc EXCEPT ![p] = Goto(p, "commit_clear")]
    /\ UNCHANGED <<objects, indexFile, tree, clock, committed>>

\* commit, line 113: the index after a commit
ClearedIndex(text) == JSONstringify(<<>>)

\* commit, lines 113-114: clear the index
commit_clear(p) ==
    /\ proc[p].pc = "commit_clear"
    /\ indexFile' = ClearedIndex(indexFile)
    /\ committed' = committed + 1
    /\ proc' = [proc EXCEPT ![p] = Done(p, "Committed")]
    /\ UNCHANGED <<objects, refs, HEAD, tree, clock>>

(* --------------------------- createBranch ------------------------------ *)

\* a create that is not exclusive: it writes over a ref that exists
createBranch_Overwrite(p, branchName) ==
    /\ proc[p].pc = "idle"
    /\ LET h == getCurrentHead(HEAD, refs) IN
       IF Falsy(h)
         THEN /\ proc' = [proc EXCEPT ![p] =
                    BeginDone(p, "branch", branchName, "NoCommitsYet")]
              /\ UNCHANGED refs
       ELSE /\ refs' = Put(refs, branchName, h)
            /\ proc' = [proc EXCEPT ![p] =
                  BeginDone(p, "branch", branchName,
                            IF branchName \in DOMAIN refs
                              THEN "BranchExists" ELSE "Created")]
    /\ UNCHANGED <<objects, HEAD, indexFile, tree, clock, committed>>

\* createBranch, lines 189-206: nothing without a commit; otherwise an
\* exclusive create of the ref file with what HEAD resolves to
createBranch(p, branchName) ==
    /\ proc[p].pc = "idle"
    /\ LET h == getCurrentHead(HEAD, refs) IN
       IF Falsy(h)
         THEN /\ proc' = [proc EXCEPT ![p] =
                    BeginDone(p, "branch", branchName, "NoCommitsYet")]
              /\ UNCHANGED refs
       ELSE IF branchName \in DOMAIN refs
         THEN /\ proc' = [proc EXCEPT ![p] =
                    BeginDone(p, "branch", branchName, "BranchExists")]
              /\ UNCHANGED refs
       ELSE /\ refs' = Put(refs, branchName, h)
            /\ proc' = [proc EXCEPT ![p] =
                  BeginDone(p, "branch", branchName, "Created")]
    /\ UNCHANGED <<objects, HEAD, indexFile, tree, clock, committed>>

(* ------------------------------ checkout ------------------------------- *)

\* the phase that follows the deletions / the writes up to entry i
AfterDelete(currentFiles, newFiles, i) ==
    IF i < Len(currentFiles) THEN "checkout_delete"
    ELSE IF Len(newFiles) > 0 THEN "checkout_restore" ELSE "checkout_sethead"
AfterRestore(newFiles, i) ==
    IF i < Len(newFiles) THEN "checkout_restore" ELSE "checkout_sethead"

\* a checkout that does not test the hash it read: with an empty ref it
\* reads the objects directory itself, which is an EISDIR
checkout_load_NoEmptyCheck(p, branchName) ==
    /\ proc[p].pc = "idle"
    /\ proc' = [proc EXCEPT ![p] =
          IF branchName \notin DOMAIN refs
            THEN BeginDone(p, "checkout", branchName, "BranchNotFound")
          ELSE IF refs[branchName] = EMPTY
            THEN BeginDone(p, "checkout", branchName, "Error")
          ELSE IF ~HasObject(objects, refs[branchName])
            THEN BeginDone(p, "checkout", branchName, "BranchNotFound")
          ELSE IF ~IsJSON(objects[refs[branchName]])
            THEN BeginDone(p, "checkout", branchName, "Error")
          ELSE LET newFiles == JSONparse(objects[refs[branchName]]).files
                   currentFiles == FilesOf(objects, getCurrentHead(HEAD, refs))
               IN [Begin(p, "checkout", branchName,
                         AfterDelete(currentFiles, newFiles, 0)) EXCEPT
                      !.hash = refs[branchName],
                      !.newFiles = newFiles,
                      !.currentFiles = currentFiles,
                      !.i = 1]]
    /\ UNCHANGED <<disk, tree, clock, committed>>

\* checkout, lines 240-259: read the branch ref, the target commit and the
\* commit HEAD resolves to.  A missing ref file and a missing commit object
\* are both an ENOENT, which line 286 reports as a branch that is not found
checkout_load(p, branchName) ==
    /\ proc[p].pc = "idle"
    /\ proc' = [proc EXCEPT ![p] =
          IF branchName \notin DOMAIN refs
            THEN BeginDone(p, "checkout", branchName, "BranchNotFound")
          ELSE IF refs[branchName] = EMPTY
            THEN BeginDone(p, "checkout", branchName, "BranchHasNoCommits")
          ELSE IF ~HasObject(objects, refs[branchName])
            THEN BeginDone(p, "checkout", branchName, "BranchNotFound")
          ELSE IF ~IsJSON(objects[refs[branchName]])
            THEN BeginDone(p, "checkout", branchName, "Error")
          ELSE LET newFiles == JSONparse(objects[refs[branchName]]).files
                   currentFiles == FilesOf(objects, getCurrentHead(HEAD, refs))
               IN [Begin(p, "checkout", branchName,
                         AfterDelete(currentFiles, newFiles, 0)) EXCEPT
                      !.hash = refs[branchName],
                      !.newFiles = newFiles,
                      !.currentFiles = currentFiles,
                      !.i = 1]]
    /\ UNCHANGED <<disk, tree, clock, committed>>

\* a checkout that removes nothing
Unlinked_Never(w, d, file, newFiles) == w

\* checkout, lines 262-270: the working files after one file of the current
\* commit is handled; unlink fails, and is only reported, on what is no file
Unlinked(w, d, file, newFiles) ==
    IF ~HasPath(newFiles, file.path) /\ FsStat(w, d, file.path) = "file"
      THEN Remove(w, file.path)
      ELSE w

\* a deletion loop that removes every working file the target lacks
checkout_delete_Sweep(p) ==
    /\ proc[p].pc = "checkout_delete"
    /\ LET i == proc[p].i IN
       /\ work' = [f \in {g \in DOMAIN work : HasPath(proc[p].newFiles, g)} |->
                      work[f]]
       /\ proc' = [proc EXCEPT ![p] =
             [proc[p] EXCEPT
                 !.pc = AfterDelete(proc[p].currentFiles, proc[p].newFiles, i),
                 !.i = IF i < Len(proc[p].currentFiles) THEN i + 1 ELSE 1]]
    /\ UNCHANGED <<disk, dirs, clock, committed>>

\* checkout, lines 261-271: one turn of the deletion loop
checkout_delete(p) ==
    /\ proc[p].pc = "checkout_delete"
    /\ LET i == proc[p].i IN
       /\ work' = Unlinked(work, dirs, proc[p].currentFiles[i], proc[p].newFiles)
       /\ proc' = [proc EXCEPT ![p] =
             [proc[p] EXCEPT
                 !.pc = AfterDelete(proc[p].currentFiles, proc[p].newFiles, i),
                 !.i = IF i < Len(proc[p].currentFiles) THEN i + 1 ELSE 1]]
    /\ UNCHANGED <<disk, dirs, clock, committed>>

\* getFileContent, lines 185-187: the text stored under a hash
getFileContent(o, hash) == o[hash]

\* a write that leaves a file that is already there alone
Restored_KeepExisting(w, o, file) ==
    IF file.path \in DOMAIN w THEN w
    ELSE Put(w, file.path, getFileContent(o, file.hash))

\* checkout, lines 274-276: the working files after the blob is written
Restored(w, o, file) == Put(w, file.path, getFileContent(o, file.hash))

\* checkout, lines 273-278: one turn of the write loop: read the blob
\* (missing: ENOENT), mkdir -p the directory (a file in its place: EEXIST),
\* write the file (a directory in its place: EISDIR)
checkout_restore(p) ==
    /\ proc[p].pc = "checkout_restore"
    /\ LET i == proc[p].i
           file == proc[p].newFiles[i]
           dir == Dirname(file.path)
       IN
       IF ~HasObject(objects, file.hash)
         THEN /\ proc' = [proc EXCEPT ![p] = Done(p, "BranchNotFound")]
              /\ UNCHANGED tree
       ELSE IF dir \in DOMAIN work
         THEN /\ proc' = [proc EXCEPT ![p] = Done(p, "Error")]
              /\ UNCHANGED tree
       ELSE IF file.path \in dirs
         THEN /\ proc' = [proc EXCEPT ![p] = Done(p, "Error")]
              /\ dirs' = dirs \cup ({dir} \ {"."})
              /\ UNCHANGED work
       ELSE /\ dirs' = dirs \cup ({dir} \ {"."})
            /\ work' = Restored(work, objects, file)
            /\ proc' = [proc EXCEPT ![p] =
                  [proc[p] EXCEPT !.pc = AfterRestore(proc[p].newFiles, i),
                                  !.i = i + 1]]
    /\ UNCHANGED <<disk, clock, committed>>

\* a checkout that writes the hash of the commit to HEAD
checkout_sethead_Detached(p) ==
    /\ proc[p].pc = "checkout_sethead"
    /\ HEAD' = [raw |-> proc[p].hash]
    /\ proc' = [proc EXCEPT ![p] = Goto(p, "checkout_clear")]
    /\ UNCHANGED <<objects, refs, indexFile, tree, clock, committed>>

\* checkout, line 280: HEAD names the branch
checkout_sethead(p) ==
    /\ proc[p].pc = "checkout_sethead"
    /\ HEAD' = [ref |-> proc[p].arg]
    /\ proc' = [proc EXCEPT ![p] = Goto(p, "checkout_clear")]
    /\ UNCHANGED <<objects, refs, indexFile, tree, clock, committed>>

\* a checkout that leaves the index alone
checkout_clear_KeepIndex(p) ==
    /\ proc[p].pc = "checkout_clear"
    /\ proc' = [proc EXCEPT ![p] = Done(p, "Switched")]
    /\ UNCHANGED <<objects, refs, HEAD, indexFile, tree, clock, committed>>

\* checkout, lines 281-283: clear the index
checkout_clear(p) ==
    /\ proc[p].pc = "checkout_clear"
    /\ indexFile' = JSONstringify(<<>>)
    /\ proc' = [proc EXCEPT ![p] = Done(p, "Switched")]
    /\ UNCHANGED <<objects, refs, HEAD, tree, clock, committed>>

(* -------------------------------- log ---------------------------------- *)

\* log, lines 136-144: the hashes printed from head on, and whether the loop
\* ended at a null parent or threw at an object it could not read or parse
RECURSIVE Walk(_, _)
Walk(o, head) ==
    IF Falsy(head) THEN [out |-> <<>>, result |-> "Listed"]
    ELSE IF ~HasObject(o, head) \/ ~IsJSON(o[head])
      THEN [out |-> <<>>, result |-> "Thrown"]
    ELSE LET rest == Walk(o, JSONparse(o[head]).parent)
         IN [out |-> <<head>> \o rest.out, result |-> rest.result]

\* log, lines 131-145
log(p) ==
    /\ proc[p].pc = "idle"
    /\ LET head == getCurrentHead(HEAD, refs) IN
       proc' = [proc EXCEPT ![p] =
          IF Falsy(head) THEN BeginDone(p, "log", "", "NoCommitsYet")
          ELSE [BeginDone(p, "log", "", Walk(objects, head).result) EXCEPT
                   !.out = Walk(objects, head).out]]
    /\ UNCHANGED <<disk, tree, clock, committed>>

(* ------------------------------- status -------------------------------- *)

\* files.forEach(f => map.set(f.path, f.hash)), lines 302 and 310: the last
\* entry of a path wins
MapOf(files) ==
    [path \in {files[k].path : k \in 1..Len(files)} |->
        files[CHOOSE k \in 1..Len(files) :
                 /\ files[k].path = path
                 /\ \A j \in k + 1..Len(files) : files[j].path # path].hash]

\* status, lines 321-335: every working file with the hash of its content
WorkingHashes(w) == [path \in DOMAIN w |-> hashObject(w[path])]

\* every working file that is not staged counts as untracked
untrackedFiles_NotInIndex(headFiles, indexFiles, working) ==
    {f \in DOMAIN working : f \notin DOMAIN indexFiles}

\* status, lines 337-346: the first loop, over the working files
untrackedFiles(headFiles, indexFiles, working) ==
    {f \in DOMAIN working : f \notin DOMAIN indexFiles /\ f \notin DOMAIN headFiles}

\* only the staged files are compared with the working tree
changesNotStaged_IndexOnly(headFiles, indexFiles, working) ==
    {f \in DOMAIN working : f \in DOMAIN indexFiles /\ indexFiles[f] # working[f]}

changesNotStaged(headFiles, indexFiles, working) ==
    {f \in DOMAIN working :
        /\ ~(f \notin DOMAIN indexFiles /\ f \notin DOMAIN headFiles)
        /\ \/ f \in DOMAIN indexFiles /\ indexFiles[f] # working[f]
           \/ /\ ~(f \in DOMAIN indexFiles /\ indexFiles[f] # working[f])
              /\ f \in DOMAIN headFiles
              /\ f \notin DOMAIN indexFiles
              /\ headFiles[f] # working[f]}

\* status, lines 349-355: the second loop, over the index
changesToBeCommitted(headFiles, indexFiles) ==
    {[type |-> "new file", path |-> f] :
        f \in {g \in DOMAIN indexFiles : g \notin DOMAIN headFiles}}
    \cup
    {[type |-> "modified", path |-> f] :
        f \in {g \in DOMAIN indexFiles :
                  g \in DOMAIN headFiles /\ headFiles[g] # indexFiles[g]}}

\* status, lines 357-363: the third loop, over the files of HEAD's commit
deletedStaged(headFiles, indexFiles, working) ==
    {f \in DOMAIN headFiles :
        /\ f \notin DOMAIN working
        /\ f \in DOMAIN indexFiles
        /\ indexFiles[f] = headFiles[f]}

deletedUnstaged(headFiles, indexFiles, working) ==
    {f \in DOMAIN headFiles :
        /\ ~(f \notin DOMAIN working /\ f \in DOMAIN indexFiles
               /\ indexFiles[f] = headFiles[f])
        /\ f \notin DOMAIN working
        /\ f \notin DOMAIN indexFiles}

\* status, lines 313-363: the five lists of the report
Report(headFiles, indexFiles, working) ==
    [untrackedFiles |-> untrackedFiles(headFiles, indexFiles, working),
     changesNotStaged |-> changesNotStaged(headFiles, indexFiles, working),
     changesToBeCommitted |-> changesToBeCommitted(headFiles, indexFiles),
     deletedStaged |-> deletedStaged(headFiles, indexFiles, working),
     deletedUnstaged |-> deletedUnstaged(headFiles, indexFiles, working),
     headFiles |-> headFiles, indexFiles |-> indexFiles, working |-> working]

\* status, lines 294-406: it reads the repository and the working tree and
\* prints the report
status(p) ==
    /\ proc[p].pc = "idle"
    /\ proc' = [proc EXCEPT ![p] =
          [BeginDone(p, "status", "", "Reported") EXCEPT
              !.report = Report(
                  MapOf(FilesOf(objects, getCurrentHead(HEAD, refs))),
                  MapOf(JSONparse(indexFile)),
                  WorkingHashes(work))]]
    /\ UNCHANGED <<disk, tree, clock, committed>>

(* ------------------------- the specifications -------------------------- *)

\* a command line starts a command on one of the paths P
Invoke(p, P) ==
    \/ \E f \in P : add(p, f)
    \/ \E m \in Messages : commit_check(p, m)
    \/ \E b \in Branches : createBranch(p, b)
    \/ \E b \in Branches : checkout_load(p, b)
    \/ log(p)
    \/ status(p)

\* a running command takes its next step
Continue(p) ==
    \/ updateIndex(p)
    \/ removeFromIndex(p)
    \/ commit_write(p)
    \/ commit_ref(p)
    \/ commit_clear(p)
    \/ checkout_delete(p)
    \/ checkout_restore(p)
    \/ checkout_sethead(p)
    \/ checkout_clear(p)
    \/ Finish(p)

\* the user edits one of the paths P, giving it one of the versions V
UserEdit(P, V) ==
    \/ \E f \in P : \E n \in V : UserWrite(f, [text |-> n])
    \/ \E f \in P : UserDelete(f)

\* one command line at a time, each run to its end, in a working tree of one
\* file that has several versions
Next ==
    \/ UserEdit(OnePath, 1..MaxContent)
    \/ Invoke(1, OnePath)
    \/ Continue(1)

Spec == Init /\ [][Next]_vars

\* the same in a working tree of two files of one version each
NextFiles ==
    \/ UserEdit(TwoPaths, {1})
    \/ Invoke(1, TwoPaths)
    \/ Continue(1)

SpecFiles == Init /\ [][NextFiles]_vars

\* the same commands on a repository whose HEAD or refs were edited by hand
SpecDisk == InitDisk /\ [][Next]_vars

\* the same in a working tree where the path a is a file at one time and the
\* directory of the file a/b at another
TreePaths == {"a", "a/b"}
TreeDirs == {"a"}

NextTree ==
    \/ UserEdit(TreePaths, {1})
    \/ \E d \in TreeDirs : UserRmdir(d)
    \/ Invoke(1, TreePaths)
    \/ Continue(1)

SpecTree == Init /\ [][NextTree]_vars

\* the versions of the file in the runs of two command lines at a time
RaceVersions == {1, 2}

\* two command lines at a time against the same repository: one shell runs
\* add, commit and branch, the other runs checkout, and nothing orders the
\* steps of one invocation with the steps of the other
NextRace ==
    \/ UserEdit(OnePath, RaceVersions)
    \/ \E f \in OnePath : add(1, f)
    \/ \E m \in Messages : commit_check(1, m)
    \/ \E b \in Branches : createBranch(1, b)
    \/ \E b \in Branches : checkout_load(2, b)
    \/ \E p \in Procs : Continue(p)

SpecRace == Init /\ [][NextRace]_vars

(* ---------------------- status as a function --------------------------- *)

\* the paths and the versions of the three snapshots status compares
StatusPaths == <<"a", "b", "c">>
RecordedVersions == {1, 2}
WorkingVersions == {1, 2, 3}
Snapshots(V) == [{"a", "b", "c"} -> {0} \cup V]

\* the entry list of a snapshot m, where version 0 stands for no entry
Entries(m) ==
    LET present == SelectSeq(StatusPaths, LAMBDA f : m[f] # 0)
    IN [k \in 1..Len(present) |->
           [path |-> present[k], hash |-> hashObject([text |-> m[present[k]]])]]

\* a repository whose HEAD commit has the files H, whose index has the
\* entries S and whose working tree has the files W
InitStatus ==
    \E H \in Snapshots(RecordedVersions), S \in Snapshots(RecordedVersions),
       W \in Snapshots(WorkingVersions) :
      LET text == JSONstringify(CommitRecord(1, "m", Entries(H), NULL))
          blobs == {hashObject([text |-> n]) :
                       n \in {H[f] : f \in DOMAIN H} \cup {S[f] : f \in DOMAIN S}}
                   \ {hashObject([text |-> 0])}
          commits == IF Len(Entries(H)) > 0 THEN {hashObject(text)} ELSE {}
      IN /\ objects = [h \in blobs \cup commits |-> h.sha1]
         /\ refs = [b \in {"master"} |->
                       IF Len(Entries(H)) > 0 THEN hashObject(text) ELSE EMPTY]
         /\ HEAD = [ref |-> "master"]
         /\ indexFile = JSONstringify(Entries(S))
         /\ work = [f \in {g \in DOMAIN W : W[g] # 0} |-> [text |-> W[f]]]
         /\ dirs = {}
         /\ clock = Cardinality(commits)
         /\ committed = Cardinality(commits)
         /\ proc = [p \in Procs |-> IdleProc]

NextStatus ==
    \/ status(1)
    \/ Finish(1)

SpecStatus == InitStatus /\ [][NextStatus]_vars

(* ------------------------------ claims --------------------------------- *)

\* the entries of a file list, as a set
EntrySet(files) == {files[k] : k \in 1..Len(files)}
\* what HEAD resolved to, and the index, when the command q started
PreHead(q) == getCurrentHead(q.pre.HEAD, q.pre.refs)
PreIndex(q) == JSONparse(q.pre.indexFile)
\* the hash h names a stored commit
IsCommit(o, h) == ~Falsy(h) /\ HasObject(o, h) /\ IsJSON(o[h])
\* the repository is as the command q found it
SameDisk(q) ==
    /\ objects = q.pre.objects
    /\ refs = q.pre.refs
    /\ HEAD = q.pre.HEAD
    /\ indexFile = q.pre.indexFile

\* C1: a commit that starts with an index holding the same (path, hash) pairs
\* as the files of the commit HEAD resolves to ends with NoChanges and leaves
\* the object store, the refs, HEAD and the index as they were
C1_NoOpCommit ==
    \A p \in Procs :
      LET q == proc[p] IN
      (/\ q.cmd = "commit"
       /\ IsCommit(q.pre.objects, PreHead(q))
       /\ EntrySet(PreIndex(q)) = EntrySet(FilesOf(q.pre.objects, PreHead(q))))
      => (q.pc = "done" /\ q.result = "NoChanges" /\ SameDisk(q))

\* a no-op commit whose index lists the parent's entries in another order
C1_Witness ==
    \E p \in Procs :
      LET q == proc[p] IN
      /\ q.cmd = "commit"
      /\ q.result = "NoChanges"
      /\ IsCommit(q.pre.objects, PreHead(q))
      /\ PreIndex(q) # FilesOf(q.pre.objects, PreHead(q))

\* C2: a commit that starts with an empty index ends with NothingToCommit and
\* leaves the object store, the refs, HEAD and the index as they were,
\* whatever HEAD resolves to
C2_EmptyCommitRejected ==
    \A p \in Procs :
      LET q == proc[p] IN
      (q.cmd = "commit" /\ Len(PreIndex(q)) = 0)
      => (q.pc = "done" /\ q.result = "NothingToCommit" /\ SameDisk(q))

\* an empty index refused on top of a stored commit
C2_Witness ==
    \E p \in Procs :
      LET q == proc[p] IN
      /\ q.cmd = "commit"
      /\ q.result = "NothingToCommit"
      /\ IsCommit(q.pre.objects, PreHead(q))

\* C3: after a successful checkout of a branch, every file of the commit the
\* branch names is in the working tree with the content that was added and
\* committed, that is the content its recorded hash is the hash of, whatever
\* the working tree held before
C3_RoundTrip ==
    \A p \in Procs :
      LET q == proc[p] IN
      (q.cmd = "checkout" /\ q.pc = "done" /\ q.result = "Switched")
      => LET files == FilesOf(q.pre.objects, q.pre.refs[q.arg]) IN
         /\ Len(files) > 0
         /\ \A k \in 1..Len(files) :
              /\ files[k].path \in DOMAIN work
              /\ hashObject(work[files[k].path]) = files[k].hash
              /\ work[files[k].path] = q.pre.objects[files[k].hash]

\* a checkout that brought back a file that had been changed or removed
C3_Witness ==
    \E p \in Procs :
      LET q == proc[p] IN
      /\ q.cmd = "checkout"
      /\ q.pc = "done"
      /\ q.result = "Switched"
      /\ \E k \in 1..Len(q.newFiles) :
           \/ q.newFiles[k].path \notin DOMAIN q.pre.work
           \/ q.pre.work[q.newFiles[k].path] # work[q.newFiles[k].path]

\* C4: log lists the chain from HEAD: every listed commit but the last has
\* the next listed commit as its parent and is newer than it, the last has
\* parent null, and while master is the only branch the list has as many
\* entries as commits have succeeded
C4_HistoryIntegrity ==
    \A p \in Procs :
      LET q == proc[p] IN
      (q.cmd = "log" /\ q.pc = "done")
      => /\ q.result # "Thrown"
         /\ DOMAIN refs = {"master"} => Len(q.out) = committed
         /\ \A k \in 1..Len(q.out) :
              LET c == JSONparse(objects[q.out[k]]) IN
              IF k < Len(q.out)
                THEN /\ c.parent = q.out[k + 1]
                     /\ c.timeStamp > JSONparse(objects[q.out[k + 1]]).timeStamp
                ELSE c.parent = NULL

\* a log of a chain of at least two commits on master
C4_Witness ==
    \E p \in Procs :
      /\ proc[p].cmd = "log"
      /\ proc[p].pc = "done"
      /\ DOMAIN refs = {"master"}
      /\ Len(proc[p].out) >= 2

\* C5: a checkout that starts with HEAD at commit X and a working tree that
\* has X's files, and that has loaded the target commit Y, ends with every
\* path of X that Y lacks absent from the working tree and with every path
\* the two commits record with the same hash unchanged
C5_CheckoutDeletion ==
    \A p \in Procs :
      LET q == proc[p]
          X == FilesOf(q.pre.objects, PreHead(q))
      IN
      (/\ q.cmd = "checkout"
       /\ q.pc = "done"
       /\ q.hash # NULL
       /\ IsCommit(q.pre.objects, PreHead(q))
       /\ \A k \in 1..Len(X) :
            /\ X[k].path \in DOMAIN q.pre.work
            /\ hashObject(q.pre.work[X[k].path]) = X[k].hash)
      => LET Y == FilesOf(q.pre.objects, q.pre.refs[q.arg]) IN
         \A k \in 1..Len(X) :
           /\ ~HasPath(Y, X[k].path) => X[k].path \notin DOMAIN work
           /\ HasEntry(Y, X[k]) =>
                /\ X[k].path \in DOMAIN work
                /\ work[X[k].path] = q.pre.work[X[k].path]

\* a checkout that removed one file of the old commit and kept another
C5_Witness ==
    \E p \in Procs :
      LET q == proc[p] IN
      /\ q.cmd = "checkout"
      /\ q.pc = "done"
      /\ q.result = "Switched"
      /\ \A k \in 1..Len(q.currentFiles) :
           /\ q.currentFiles[k].path \in DOMAIN q.pre.work
           /\ hashObject(q.pre.work[q.currentFiles[k].path])
                = q.currentFiles[k].hash
      /\ \E k \in 1..Len(q.currentFiles) :
           ~HasPath(q.newFiles, q.currentFiles[k].path)
      /\ \E k \in 1..Len(q.currentFiles) :
           HasEntry(q.newFiles, q.currentFiles[k])

\* C6: a commit that starts with a staged index and with HEAD resolving to
\* a hash that has no object is not refused, and ends with a new commit
\* object holding the index entries, with the active pointer at that object
\* and with an empty index
C6_DanglingParentTolerated ==
    \A p \in Procs :
      LET q == proc[p] IN
      (/\ q.cmd = "commit"
       /\ ~Falsy(PreHead(q))
       /\ ~HasObject(q.pre.objects, PreHead(q))
       /\ Len(PreIndex(q)) > 0)
      => /\ q.result \in {"none", "Committed"}
         /\ q.pc = "done" =>
              /\ q.result = "Committed"
              /\ q.hash \in DOMAIN objects \ DOMAIN q.pre.objects
              /\ IsCommit(objects, q.hash)
              /\ JSONparse(objects[q.hash]).files = PreIndex(q)
              /\ getCurrentHead(HEAD, refs) = q.hash
              /\ JSONparse(indexFile) = <<>>

\* a commit made on a branch whose ref holds a hash that has no object
C6_Witness ==
    \E p \in Procs :
      LET q == proc[p] IN
      /\ q.cmd = "commit"
      /\ q.pc = "done"
      /\ q.result = "Committed"
      /\ IsSymbolic(q.pre.HEAD)
      /\ ~Falsy(PreHead(q))
      /\ ~HasObject(q.pre.objects, PreHead(q))

\* the categories status puts the path f in
Labels(r, f) ==
    (IF f \in r.untrackedFiles THEN {"untracked"} ELSE {})
    \cup (IF f \in r.changesNotStaged THEN {"modified, not staged"} ELSE {})
    \cup (IF [type |-> "new file", path |-> f] \in r.changesToBeCommitted
            THEN {"staged: new file"} ELSE {})
    \cup (IF [type |-> "modified", path |-> f] \in r.changesToBeCommitted
            THEN {"staged: modified"} ELSE {})
    \cup (IF f \in r.deletedStaged THEN {"deleted, staged"} ELSE {})
    \cup (IF f \in r.deletedUnstaged THEN {"deleted, not staged"} ELSE {})

\* the paths of the three snapshots of a report
AllPaths(r) == DOMAIN r.headFiles \cup DOMAIN r.indexFiles \cup DOMAIN r.working

\* the working file f is what is staged and what Head records, or is not
\* staged and is what Head records
Clean(r, f) ==
    /\ f \in DOMAIN r.working
    /\ f \in DOMAIN r.headFiles
    /\ IF f \in DOMAIN r.indexFiles
         THEN r.indexFiles[f] = r.working[f] /\ r.headFiles[f] = r.indexFiles[f]
         ELSE r.headFiles[f] = r.working[f]

\* C7, as claimed: status puts every path of the three snapshots in exactly
\* one category
C7_ExactlyOneLabel ==
    \A p \in Procs :
      (proc[p].cmd = "status" /\ proc[p].pc = "done")
      => \A f \in AllPaths(proc[p].report) :
           Cardinality(Labels(proc[p].report, f)) = 1

\* C7, as amended: status puts every path of the three snapshots in at most
\* two categories, in two only when one is modified-not-staged and the other
\* is a staged one, and in none exactly when the path is clean
C7_LabelsPerPath ==
    \A p \in Procs :
      (proc[p].cmd = "status" /\ proc[p].pc = "done")
      => \A f \in AllPaths(proc[p].report) :
           LET L == Labels(proc[p].report, f) IN
           /\ Cardinality(L) <= 2
           /\ Cardinality(L) = 2 =>
                /\ "modified, not staged" \in L
                /\ L \cap {"staged: new file", "staged: modified"} # {}
           /\ L = {} <=> Clean(proc[p].report, f)

\* a report with a path in two categories and a path in none
C7_Witness ==
    \E p \in Procs :
      /\ proc[p].cmd = "status"
      /\ proc[p].pc = "done"
      /\ \E f \in AllPaths(proc[p].report) :
           Cardinality(Labels(proc[p].report, f)) = 2
      /\ \E f \in AllPaths(proc[p].report) : Labels(proc[p].report, f) = {}

\* the snapshots of the scenario: Head = {a: h1}, Staged = {a: h1, b: h2},
\* Working = {a: h3, b: h2, c}
IsScenario(r) ==
    /\ r.headFiles = [f \in {"a"} |-> hashObject([text |-> 1])]
    /\ r.indexFiles = [f \in {"a", "b"} |->
                          hashObject([text |-> IF f = "a" THEN 1 ELSE 2])]
    /\ DOMAIN r.working = {"a", "b", "c"}
    /\ r.working["a"] = hashObject([text |-> 3])
    /\ r.working["b"] = hashObject([text |-> 2])

\* C8: in every report a working path that is neither staged nor in Head is
\* untracked; a staged path whose working file has another hash, and an
\* unstaged path of Head whose working file has another hash, are modified,
\* not staged; a staged path absent from Head is staged as a new file; a
\* staged path that Head has with another hash is staged as modified; and
\* the scenario gives a modified not staged, b a new file, c untracked and
\* nothing else
C8_StatusRules ==
    \A p \in Procs :
      (proc[p].cmd = "status" /\ proc[p].pc = "done")
      => LET r == proc[p].report
             H == r.headFiles
             S == r.indexFiles
             W == r.working
         IN
         /\ \A f \in AllPaths(r) :
              /\ (f \in DOMAIN W /\ f \notin DOMAIN S /\ f \notin DOMAIN H)
                   => f \in r.untrackedFiles
              /\ (f \in DOMAIN S /\ f \in DOMAIN W /\ S[f] # W[f])
                   => f \in r.changesNotStaged
              /\ (f \in DOMAIN H /\ f \notin DOMAIN S /\ f \in DOMAIN W
                    /\ H[f] # W[f])
                   => f \in r.changesNotStaged
              /\ (f \in DOMAIN S /\ f \notin DOMAIN H)
                   => [type |-> "new file", path |-> f] \in r.changesToBeCommitted
              /\ (f \in DOMAIN S /\ f \in DOMAIN H /\ S[f] # H[f])
                   => [type |-> "modified", path |-> f] \in r.changesToBeCommitted
         /\ IsScenario(r) =>
              /\ r.untrackedFiles = {"c"}
              /\ r.changesNotStaged = {"a"}
              /\ r.changesToBeCommitted = {[type |-> "new file", path |-> "b"]}
              /\ r.deletedStaged = {}
              /\ r.deletedUnstaged = {}

\* the report of the scenario
C8_Witness ==
    \E p \in Procs :
      /\ proc[p].cmd = "status"
      /\ proc[p].pc = "done"
      /\ IsScenario(proc[p].report)

\* C9: a commit that succeeded has stored a commit of the index it found and
\* has moved one pointer to it: the branch HEAD names when HEAD is symbolic,
\* with HEAD and every other branch as they were, or HEAD itself when HEAD
\* held a raw hash, with every branch as it was; and the index is empty
C9_CommitMovesOnePointer ==
    \A p \in Procs :
      LET q == proc[p] IN
      (q.cmd = "commit" /\ q.pc = "done" /\ q.result = "Committed")
      => /\ IsCommit(objects, q.hash)
         /\ JSONparse(objects[q.hash]).files = PreIndex(q)
         /\ IF IsSymbolic(q.pre.HEAD)
              THEN /\ HEAD = q.pre.HEAD
                   /\ refs = Put(q.pre.refs, q.pre.HEAD.ref, q.hash)
              ELSE /\ HEAD = [raw |-> q.hash]
                   /\ refs = q.pre.refs
         /\ JSONparse(indexFile) = <<>>

\* a commit made with HEAD holding a raw hash
C9_Witness ==
    \E p \in Procs :
      LET q == proc[p] IN
      /\ q.cmd = "commit"
      /\ q.pc = "done"
      /\ q.result = "Committed"
      /\ ~IsSymbolic(q.pre.HEAD)
      /\ IsCommit(q.pre.objects, PreHead(q))

\* C10: in every state, also between the steps of a commit, every branch ref
\* that is not empty names a commit object of the store
C10_RefIntegrity ==
    \A b \in DOMAIN refs : refs[b] # EMPTY => IsCommit(objects, refs[b])

\* a commit between the move of the ref and the clearing of the index, with
\* a second branch in place
C10_Witness ==
    \E p \in Procs :
      /\ proc[p].pc = "commit_clear"
      /\ DOMAIN refs = {"master", "dev"}
      /\ refs["master"] # refs["dev"]

\* C11: a branch command ends at once, with HEAD, the index, the object
\* store and every ref that existed as they were; it ends with NoCommitsYet
\* and no new ref when HEAD resolves to nothing, otherwise with BranchExists
\* and no new ref when a ref of that name exists, otherwise with Created and
\* one new ref of that name holding the hash HEAD resolves to
C11_CreateBranch ==
    \A p \in Procs :
      LET q == proc[p] IN
      q.cmd = "branch"
      => /\ q.pc = "done"
         /\ objects = q.pre.objects
         /\ HEAD = q.pre.HEAD
         /\ indexFile = q.pre.indexFile
         /\ \A b \in DOMAIN q.pre.refs :
              b \in DOMAIN refs /\ refs[b] = q.pre.refs[b]
         /\ IF Falsy(PreHead(q))
              THEN q.result = "NoCommitsYet" /\ refs = q.pre.refs
            ELSE IF q.arg \in DOMAIN q.pre.refs
              THEN q.result = "BranchExists" /\ refs = q.pre.refs
            ELSE /\ q.result = "Created"
                 /\ refs = Put(q.pre.refs, q.arg, PreHead(q))

\* a branch command refused for a name whose ref holds another hash than
\* the one HEAD resolves to
C11_Witness ==
    \E p \in Procs :
      LET q == proc[p] IN
      /\ q.cmd = "branch"
      /\ q.result = "BranchExists"
      /\ refs[q.arg] # PreHead(q)
      /\ JSONparse(indexFile) # <<>>

\* the working tree is as the command q found it
SameTree(q) == work = q.pre.work /\ dirs = q.pre.dirs

\* C12: a checkout of a name that has no ref ends with BranchNotFound, a
\* checkout of a branch whose ref is empty ends with BranchHasNoCommits, and
\* both leave HEAD, the index, the refs, the object store and the working
\* tree as they were
C12_FailedCheckout ==
    \A p \in Procs :
      LET q == proc[p] IN
      q.cmd = "checkout"
      => /\ q.arg \notin DOMAIN q.pre.refs
              => /\ q.pc = "done"
                 /\ q.result = "BranchNotFound"
                 /\ SameDisk(q)
                 /\ SameTree(q)
         /\ (q.arg \in DOMAIN q.pre.refs /\ q.pre.refs[q.arg] = EMPTY)
              => /\ q.pc = "done"
                 /\ q.result = "BranchHasNoCommits"
                 /\ SameDisk(q)
                 /\ SameTree(q)

\* a checkout of a branch without commits, refused in a repository that has
\* commits, staged entries and working files
C12_Witness ==
    \E p \in Procs :
      LET q == proc[p] IN
      /\ q.cmd = "checkout"
      /\ q.result = "BranchHasNoCommits"
      /\ committed > 0
      /\ JSONparse(indexFile) # <<>>
      /\ work # <<>>

\* C13: after a checkout of a branch has succeeded, every path of the files
\* of the commit the branch named is a working file holding the text stored
\* under its hash, HEAD names the branch symbolically and the index is empty
C13_CheckoutPostState ==
    \A p \in Procs :
      LET q == proc[p] IN
      (q.cmd = "checkout" /\ q.pc = "done" /\ q.result = "Switched")
      => LET C == JSONparse(q.pre.objects[q.pre.refs[q.arg]]) IN
         /\ \A k \in 1..Len(C.files) :
              /\ C.files[k].path \in DOMAIN work
              /\ work[C.files[k].path] = objects[C.files[k].hash]
         /\ HEAD = [ref |-> q.arg]
         /\ JSONparse(indexFile) = <<>>

\* a checkout of the commit HEAD was already at, over a file edited since
\* and with an entry staged
C13_Witness ==
    \E p \in Procs :
      LET q == proc[p] IN
      /\ q.cmd = "checkout"
      /\ q.pc = "done"
      /\ q.result = "Switched"
      /\ PreIndex(q) # <<>>
      /\ q.pre.HEAD # [ref |-> q.arg]
      /\ \E k \in 1..Len(q.newFiles) :
           /\ HasEntry(q.currentFiles, q.newFiles[k])
           /\ q.newFiles[k].path \in DOMAIN q.pre.work
           /\ q.pre.work[q.newFiles[k].path] # work[q.newFiles[k].path]

\* the paths of a file list
PathsOf(files) == {files[k].path : k \in 1..Len(files)}

\* C14, as claimed: after a checkout has succeeded the working tree has the
\* paths of the target commit's files, with their content, and no other file
C14_AtCommit ==
    \A p \in Procs :
      LET q == proc[p] IN
      (q.cmd = "checkout" /\ q.pc = "done" /\ q.result = "Switched")
      => LET C == JSONparse(q.pre.objects[q.pre.refs[q.arg]]) IN
         /\ DOMAIN work = PathsOf(C.files)
         /\ \A k \in 1..Len(C.files) :
              hashObject(work[C.files[k].path]) = C.files[k].hash

\* C14, as amended: after a checkout has succeeded, a path of the target
\* commit's files holds its blob, a path of the files of the commit HEAD
\* resolved to that the target lacks is absent, and every other path is a
\* working file exactly when it was one before, with the content it had
C14_CheckoutEffect ==
    \A p \in Procs :
      LET q == proc[p] IN
      (q.cmd = "checkout" /\ q.pc = "done" /\ q.result = "Switched")
      => LET C == JSONparse(q.pre.objects[q.pre.refs[q.arg]])
             X == FilesOf(q.pre.objects, PreHead(q))
         IN
         \A f \in DOMAIN work \cup DOMAIN q.pre.work
                  \cup PathsOf(C.files) \cup PathsOf(X) :
           IF f \in PathsOf(C.files)
             THEN /\ f \in DOMAIN work
                  /\ hashObject(work[f]) = MapOf(C.files)[f]
           ELSE IF f \in PathsOf(X)
             THEN f \notin DOMAIN work
           ELSE /\ f \in DOMAIN work <=> f \in DOMAIN q.pre.work
                /\ f \in DOMAIN work => work[f] = q.pre.work[f]

\* a successful checkout after which the working tree holds a file that the
\* target commit does not list
C14_Witness ==
    \E p \in Procs :
      LET q == proc[p] IN
      /\ q.cmd = "checkout"
      /\ q.pc = "done"
      /\ q.result = "Switched"
      /\ Len(q.currentFiles) > 0
      /\ DOMAIN work \ PathsOf(q.newFiles) # {}

\* C15, as claimed: when a commit succeeds, every path of the files of the
\* commit HEAD resolved to that was still a working file and was not among
\* the staged paths is in the files of the new commit, next to the staged
\* paths
C15_FullSnapshot ==
    \A p \in Procs :
      LET q == proc[p] IN
      (q.cmd = "commit" /\ q.pc = "done" /\ q.result = "Committed")
      => LET new == JSONparse(objects[q.hash]).files
             old == FilesOf(q.pre.objects, PreHead(q))
         IN /\ PathsOf(PreIndex(q)) \subseteq PathsOf(new)
            /\ \A f \in PathsOf(old) :
                 (f \in DOMAIN q.pre.work /\ f \notin PathsOf(PreIndex(q)))
                   => f \in PathsOf(new)

\* C16, as claimed: a log does not fail: it ends with the list of the
\* commits it found, also when a hash of the chain has no object
C16_WalkDegrades ==
    \A p \in Procs :
      LET q == proc[p] IN
      (q.cmd = "log" /\ q.pc = "done")
      => q.result \in {"Listed", "NoCommitsYet"}

\* the checkout q started with HEAD at a commit whose files the working tree
\* held, and goes to a commit in which a path of that commit is a directory
\* (file to directory) or a directory of it is a path (directory to file)
FileToDir(q) ==
    /\ PathsOf(q.currentFiles) = {"a"}
    /\ PathsOf(q.newFiles) = {"a/b"}
DirToFile(q) ==
    /\ PathsOf(q.currentFiles) = {"a/b"}
    /\ PathsOf(q.newFiles) = {"a"}
AtCurrent(q) ==
    /\ DOMAIN q.pre.work = PathsOf(q.currentFiles)
    /\ \A k \in 1..Len(q.currentFiles) :
         hashObject(q.pre.work[q.currentFiles[k].path]) = q.currentFiles[k].hash

\* C17, as claimed: a checkout between two commits in which a path changes
\* from a file to a directory or from a directory to a file completes: the
\* target files are written, HEAD names the branch and the index is empty
C17_FileDirChange ==
    \A p \in Procs :
      LET q == proc[p] IN
      (/\ q.cmd = "checkout"
       /\ q.pc = "done"
       /\ q.hash # NULL
       /\ AtCurrent(q)
       /\ FileToDir(q) \/ DirToFile(q))
      => /\ q.result = "Switched"
         /\ \A k \in 1..Len(q.newFiles) :
              /\ q.newFiles[k].path \in DOMAIN work
              /\ hashObject(work[q.newFiles[k].path]) = q.newFiles[k].hash
         /\ HEAD = [ref |-> q.arg]
         /\ JSONparse(indexFile) = <<>>

\* C18: with two invocations interleaved, the step of a commit that moves
\* the pointer writes the new hash to the ref HEAD names at that moment and
\* to no other ref, while the commit stored under that hash has the parent
\* HEAD resolved to when the commit started; the witness is a state in which
\* the two differ
C18_CommitRace ==
    [][\A p \in Procs :
         (proc[p].pc = "commit_ref" /\ proc'[p].pc = "commit_clear")
         => /\ JSONparse(objects[proc[p].hash]).parent
                 = ParentOf(proc[p].pre.HEAD, proc[p].pre.refs)
            /\ IsSymbolic(HEAD) =>
                 /\ refs'[HEAD.ref] = proc[p].hash
                 /\ \A b \in DOMAIN refs \ {HEAD.ref} : refs'[b] = refs[b]]_vars

\* a commit running next to a checkout has moved a branch to a commit whose
\* parent is not the commit the branch named before
C18_Witness ==
    \E p \in Procs, o \in Procs :
      LET q == proc[p] IN
      /\ q.cmd = "commit"
      /\ q.pc = "commit_clear"
      /\ proc[o].cmd = "checkout"
      /\ proc[o].pc \in {"checkout_clear", "done"}
      /\ \E b \in DOMAIN q.pre.refs :
           /\ refs[b] = q.hash
           /\ IsCommit(objects, q.pre.refs[b])
           /\ IsCommit(objects, JSONparse(objects[q.hash]).parent)
           /\ JSONparse(objects[q.hash]).parent # q.pre.refs[b]

\* the commits reachable from hash h by parent links
Reachable(o, h) == EntrySet(Walk(o, h).out)

\* C19: with one command at a time, a step that changes the ref of a branch
\* leaves it at a stored commit whose parent is the hash the ref held (null
\* when the ref was empty), and every commit reachable from a branch ref by
\* parent links is reachable from it after every step
C19_HistoryGrows ==
    [][\A b \in DOMAIN refs :
         /\ b \in DOMAIN refs'
         /\ refs'[b] # refs[b] =>
              /\ IsCommit(objects', refs'[b])
              /\ JSONparse(objects'[refs'[b]]).parent
                   = (IF refs[b] = EMPTY THEN NULL ELSE refs[b])
         /\ Reachable(objects, refs[b]) \subseteq Reachable(objects', refs'[b])]_vars

\* a commit has moved a branch that had commits, next to a second branch
\* with another history, after a checkout
C19_Witness ==
    \E p \in Procs :
      LET q == proc[p] IN
      /\ q.cmd = "commit"
      /\ q.pc = "commit_clear"
      /\ q.pre.HEAD = [ref |-> "dev"]
      /\ IsCommit(objects, q.pre.refs["dev"])
      /\ refs["dev"] = q.hash
      /\ q.pre.refs["dev"] # refs["master"]
      /\ Cardinality(Reachable(objects, refs["dev"])) >= 2

\* every blob hash of the file list is the hash of a stored object
Closed(o, files) == \A k \in 1..Len(files) : HasObject(o, files[k].hash)

\* C20: in every state, also between the two writes of add, the hashes of
\* the index entries and of the files of every stored commit name stored
\* objects; no step removes a stored object or changes its text; and a
\* checkout of a branch that has a ref never reports a missing object
C20_ReferentialClosure ==
    /\ [](/\ Closed(objects, JSONparse(indexFile))
          /\ \A h \in DOMAIN objects :
               IsJSON(objects[h]) => Closed(objects, JSONparse(objects[h]).files)
          /\ \A p \in Procs :
               (proc[p].cmd = "checkout" /\ proc[p].result = "BranchNotFound")
                 => proc[p].arg \notin DOMAIN proc[p].pre.refs)
    /\ [][\A h \in DOMAIN objects :
            h \in DOMAIN objects' /\ objects'[h] = objects[h]]_vars

\* an add between its two writes, after a commit: the blob of a new version
\* is stored and the index still has the entry of the version staged before
C20_Witness ==
    \E p \in Procs :
      LET q == proc[p] IN
      /\ q.cmd = "add"
      /\ q.pc = "updateIndex"
      /\ q.hash \in DOMAIN objects \ DOMAIN q.pre.objects
      /\ committed > 0
      /\ JSONparse(indexFile) # <<>>
      /\ ~HasEntry(JSONparse(indexFile), [path |-> q.arg, hash |-> q.hash])

\* C21: in every state reached from init by add, commit, branch, checkout,
\* log and status, HEAD is symbolic and names a branch that has a ref file;
\* so a commit about to move its pointer moves a branch ref, never HEAD
C21_HeadNeverDetached ==
    /\ IsSymbolic(HEAD)
    /\ HEAD.ref \in DOMAIN refs
    /\ \A p \in Procs :
         proc[p].pc = "commit_ref" => AdvancedHead(HEAD, proc[p].hash) = HEAD

\* a commit about to move its pointer after a checkout has pointed HEAD at
\* a second branch
C21_Witness ==
    \E p \in Procs :
      LET q == proc[p] IN
      /\ q.cmd = "commit"
      /\ q.pc = "commit_ref"
      /\ HEAD = [ref |-> "dev"]
      /\ IsCommit(objects, refs["dev"])

====
